---- MODULE Spec2Model ----
(***************************************************************************)
(* Model of parse_idl (src/src/main.rs): the translation of Anchor IDL     *)
(* documents into Rust declarations.  The state is that of `main`: the     *)
(* document being translated, the output file, the set of unresolved type  *)
(* names, the position in the current loop, the warning log and the        *)
(* result of the run.                                                      *)
(*                                                                         *)
(* Identifiers that the program case-converts (instruction, argument and   *)
(* field names) are sequences of one-character strings; type names, which  *)
(* the program copies unmodified, and the text of a mapped type are        *)
(* strings.                                                                *)
(***************************************************************************)
EXTENDS Naturals, Sequences, FiniteSets, TLC

VARIABLES filesLeft, pc, idl, output, unresolved, pos, emitted, warned, result

vars == <<filesLeft, pc, idl, output, unresolved, pos, emitted, warned, result>>

(***************************************************************************)
(* Bounds of the model.                                                    *)
(***************************************************************************)
MaxFiles == 2
MaxInstr == 1
MaxArgs == 2
MaxFields == 1
MaxVariants == 1
MaxAccounts == 1
MaxTypes == 2
MaxDepth == 3
MaxNameLen == 3
MaxDiscInstr == 2

(***************************************************************************)
(* Characters and heck's case conversion (the calls to_snake_case and      *)
(* to_upper_camel_case).                                                   *)
(***************************************************************************)
LowerChars ==
    <<"a", "b", "c", "d", "e", "f", "g", "h", "i", "j", "k", "l", "m",
      "n", "o", "p", "q", "r", "s", "t", "u", "v", "w", "x", "y", "z">>

UpperChars ==
    <<"A", "B", "C", "D", "E", "F", "G", "H", "I", "J", "K", "L", "M",
      "N", "O", "P", "Q", "R", "S", "T", "U", "V", "W", "X", "Y", "Z">>

IsLower(c) == \E i \in DOMAIN LowerChars : LowerChars[i] = c

IsUpper(c) == \E i \in DOMAIN UpperChars : UpperChars[i] = c

IsAlphanumeric(c) == IsLower(c) \/ IsUpper(c)

ToLower(c) ==
    IF IsUpper(c)
    THEN LowerChars[CHOOSE i \in DOMAIN UpperChars : UpperChars[i] = c]
    ELSE c

ToUpper(c) ==
    IF IsLower(c)
    THEN UpperChars[CHOOSE i \in DOMAIN LowerChars : LowerChars[i] = c]
    ELSE c

\* The text of a character sequence.
RECURSIVE Text(_)
Text(s) == IF s = <<>> THEN "" ELSE Head(s) \o Text(Tail(s))

\* s.split(|c| !c.is_alphanumeric()): the maximal alphanumeric runs of s,
\* empty runs included.
RECURSIVE SplitWords(_, _, _)
SplitWords(s, i, cur) ==
    IF i > Len(s) THEN <<cur>>
    ELSE IF IsAlphanumeric(s[i]) THEN SplitWords(s, i + 1, Append(cur, s[i]))
    ELSE <<cur>> \o SplitWords(s, i + 1, <<>>)

\* The scan of one run: a boundary after a lowercase character followed by
\* an uppercase one, and before the last uppercase character of an
\* uppercase run that is followed by a lowercase one.
RECURSIVE WordScan(_, _, _, _)
WordScan(word, i, init, mode) ==
    IF i > Len(word) THEN <<>>
    ELSE IF i = Len(word) THEN <<SubSeq(word, init, Len(word))>>
    ELSE
        LET c == word[i]
            next == word[i + 1]
            next_mode == IF IsLower(c) THEN "Lowercase"
                         ELSE IF IsUpper(c) THEN "Uppercase"
                         ELSE mode
        IN  IF next_mode = "Lowercase" /\ IsUpper(next)
            THEN <<SubSeq(word, init, i)>> \o WordScan(word, i + 1, i + 1, "Boundary")
            ELSE IF mode = "Uppercase" /\ IsUpper(c) /\ IsLower(next)
            THEN <<SubSeq(word, init, i - 1)>> \o WordScan(word, i + 1, i, "Boundary")
            ELSE WordScan(word, i + 1, init, next_mode)

RECURSIVE ScanAll(_)
ScanAll(runs) ==
    IF runs = <<>> THEN <<>>
    ELSE WordScan(Head(runs), 1, 1, "Boundary") \o ScanAll(Tail(runs))

\* The words heck's transform finds in s.
Words(s) == ScanAll(SplitWords(s, 1, <<>>))

Lowercase(w) == [i \in DOMAIN w |-> ToLower(w[i])]

Capitalize(w) == [i \in DOMAIN w |-> IF i = 1 THEN ToUpper(w[i]) ELSE ToLower(w[i])]

RECURSIVE JoinSnake(_)
JoinSnake(ws) ==
    IF ws = <<>> THEN <<>>
    ELSE IF Len(ws) = 1 THEN Lowercase(ws[1])
    ELSE Lowercase(ws[1]) \o <<"_">> \o JoinSnake(Tail(ws))

RECURSIVE JoinCamel(_)
JoinCamel(ws) ==
    IF ws = <<>> THEN <<>> ELSE Capitalize(Head(ws)) \o JoinCamel(Tail(ws))

to_snake_case(s) == JoinSnake(Words(s))

to_upper_camel_case(s) == JoinCamel(Words(s))

(***************************************************************************)
(* IDL type expressions (anchor_idl::IdlType) as tuples headed by the      *)
(* variant's name, and the Type Mapper.                                    *)
(***************************************************************************)
Defined(name) == <<"Defined", name>>

\* ty_to_rust_type: the Rust type's text, and the unresolved set after the
\* call.
RECURSIVE ty_to_rust_type(_, _)
ty_to_rust_type(ty, unres) ==
    LET prim(t) == [text |-> t, unresolved |-> unres]
    IN  CASE ty[1] = "Bool" -> prim("bool")
          [] ty[1] = "U8" -> prim("u8")
          [] ty[1] = "I8" -> prim("i8")
          [] ty[1] = "U16" -> prim("u16")
          [] ty[1] = "I16" -> prim("i16")
          [] ty[1] = "U32" -> prim("u32")
          [] ty[1] = "I32" -> prim("i32")
          [] ty[1] = "F32" -> prim("f32")
          [] ty[1] = "U64" -> prim("u64")
          [] ty[1] = "I64" -> prim("i64")
          [] ty[1] = "F64" -> prim("f64")
          [] ty[1] = "U128" -> prim("u128")
          [] ty[1] = "I128" -> prim("i128")
          [] ty[1] = "Bytes" -> prim("Vec<u8>")
          [] ty[1] = "String" -> prim("String")
          [] ty[1] = "PublicKey" -> prim("Pubkey")
          [] ty[1] = "Option" ->
                LET r == ty_to_rust_type(ty[2], unres)
                IN  [text |-> "Option<" \o r.text \o ">", unresolved |-> r.unresolved]
          [] ty[1] = "Vec" ->
                LET r == ty_to_rust_type(ty[2], unres)
                IN  [text |-> "Vec<" \o r.text \o ">", unresolved |-> r.unresolved]
          [] ty[1] = "Array" ->
                LET r == ty_to_rust_type(ty[2], unres)
                IN  [text |-> "[" \o r.text \o "; " \o ToString(ty[3]) \o "]",
                     unresolved |-> r.unresolved]
          [] ty[1] = "Defined" ->
                [text |-> ty[2], unresolved |-> unres \cup {ty[2]}]

(***************************************************************************)
(* The writers: the output file is whether it has been created and the     *)
(* sequence of the writes made to it, each the writer's name and its       *)
(* formatted arguments.                                                    *)
(***************************************************************************)
NoFile == [created |-> FALSE, data |-> <<>>]

\* File::create: the file exists and is empty.
FileCreate == [created |-> TRUE, data |-> <<>>]

Write(out, call, args) ==
    [out EXCEPT !.data = Append(@, [call |-> call, args |-> args])]

add_imports(out) == Write(out, "add_imports", <<>>)

add_program_id(out, id) == Write(out, "add_program_id", <<id>>)

define_discriminator(out) == Write(out, "define_discriminator", <<>>)

add_discriminator(out, bytes, ix_name) ==
    Write(out, "add_discriminator", <<bytes, ix_name>>)

close_define_discriminator(out) == Write(out, "close_define_discriminator", <<>>)

define_struct_or_enum(out, name, type_str) ==
    Write(out, "define_struct_or_enum", <<type_str, name>>)

add_struct_field(out, field_name, field_type) ==
    Write(out, "add_struct_field", <<field_name, field_type>>)

add_enum_field(out, field_name) == Write(out, "add_enum_field", <<field_name>>)

close_define_struct_or_enum(out) == Write(out, "close_define_struct_or_enum", <<>>)

(***************************************************************************)
(* The Discriminator Builder.  The digest is kept symbolic: the first      *)
(* eight bytes of SHA-256 of a preimage are represented by the preimage,   *)
(* a character sequence.                                                   *)
(***************************************************************************)
Sha256First8(preimage) == <<"sha256[..8]", preimage>>

GlobalTag == <<"g", "l", "o", "b", "a", "l", ":">>

(***************************************************************************)
(* The documents the model translates (anchor_idl::Idl as deserialized).   *)
(***************************************************************************)
SeqsUpTo(S, n) == UNION {[1..k -> S] : k \in 0..n}

NonEmptySeqsUpTo(S, n) == UNION {[1..k -> S] : k \in 1..n}

TypeNames == {"A", "B"}

\* t under d wrappers, Option innermost, then Vec, then Array.
RECURSIVE Nest(_, _)
Nest(t, d) ==
    IF d = 0 THEN t
    ELSE IF d % 3 = 1 THEN <<"Option", Nest(t, d - 1)>>
    ELSE IF d % 3 = 2 THEN <<"Vec", Nest(t, d - 1)>>
    ELSE <<"Array", Nest(t, d - 1), 4>>

ArgTypes == {<<"PublicKey">>} \cup {Nest(Defined(n), d) : n \in TypeNames, d \in {0, MaxDepth}}

FieldTypes == {<<"U8">>} \cup {Defined(n) : n \in TypeNames}

FieldNames == {<<"n", "e", "w", "F", "e", "e">>}

IdlFields(types) == [name : FieldNames, ty : types]

IdlEnumVariants ==
    {[name |-> "Buy", fields |-> <<>>], [name |-> "Sell", fields |-> <<<<"U64">>>>]}

StructTy(fields) == [kind |-> "Struct", fields |-> fields, variants |-> <<>>]

EnumTy(variants) == [kind |-> "Enum", fields |-> <<>>, variants |-> variants]

IdlTypeDefinitions ==
    [name : TypeNames,
     ty : {StructTy(f) : f \in NonEmptySeqsUpTo(IdlFields(FieldTypes), MaxFields)}
          \cup {EnumTy(v) : v \in NonEmptySeqsUpTo(IdlEnumVariants, MaxVariants)}]

InstructionNames == {<<"s", "w", "a", "p", "B", "a", "s", "e">>}

IdlInstructions ==
    [name : InstructionNames, args : SeqsUpTo(IdlFields(ArgTypes), MaxArgs)]

\* Instructions without arguments, under every name of up to MaxNameLen
\* characters.
NameChars == {"a", "b", "B", "_"}

ShortNames == NonEmptySeqsUpTo(NameChars, MaxNameLen)

NamedInstructions == [name : ShortNames, args : {<<>>}]

\* The case conversions of the identifiers of the documents, tabulated.
Identifiers == FieldNames \cup InstructionNames \cup ShortNames

CaseTable == {<<s, to_snake_case(s), to_upper_camel_case(s)>> : s \in Identifiers}

TextTable ==
    {<<s, Text(s)>> : s \in {row[2] : row \in CaseTable} \cup {row[3] : row \in CaseTable}}

CaseRow(s) == CHOOSE row \in CaseTable : row[1] = s

snake_case(s) == CaseRow(s)[2]

upper_camel_case(s) == CaseRow(s)[3]

TextOf(s) == (CHOOSE row \in TextTable : row[1] = s)[2]

\* build_sighash hashing the name as given, without the case conversion.
build_sighash_raw(fname) == Sha256First8(GlobalTag \o fname)

build_sighash(fname) ==
    LET function_name == snake_case(fname)
        preimage == GlobalTag \o function_name
    IN  Sha256First8(preimage)

\* metadata: absent, without an address, with an address that is no string,
\* with an address string.
Metadatas ==
    {[some |-> FALSE, address |-> "absent", id |-> ""],
     [some |-> TRUE, address |-> "absent", id |-> ""],
     [some |-> TRUE, address |-> "number", id |-> ""],
     [some |-> TRUE, address |-> "string", id |-> "Prog1111"]}

\* The document before any of its parts has been read.
UnreadIdl ==
    [metadata |-> [some |-> FALSE, address |-> "unread", id |-> ""],
     instructions |-> <<>>, accounts |-> <<>>, types |-> <<>>]

(***************************************************************************)
(* The Declaration Emitter: the bodies of the three emitting loops.        *)
(***************************************************************************)
\* The fields of a struct from position i on: each field is mapped and
\* written; the result is the output and the unresolved set afterwards.
RECURSIVE EmitFields(_, _, _, _)
EmitFields(fields, i, out, unres) ==
    IF i > Len(fields) THEN [output |-> out, unresolved |-> unres]
    ELSE LET r == ty_to_rust_type(fields[i].ty, unres)
         IN  EmitFields(fields, i + 1,
                        add_struct_field(out, TextOf(snake_case(fields[i].name)), r.text),
                        r.unresolved)

RECURSIVE EmitVariants(_, _, _)
EmitVariants(variants, i, out) ==
    IF i > Len(variants) THEN out
    ELSE EmitVariants(variants, i + 1, add_enum_field(out, variants[i].name))

\* One instruction's argument struct.
EmitArgs(ix, out, unres) ==
    IF ix.args # <<>>
    THEN LET r == EmitFields(ix.args, 1,
                             define_struct_or_enum(out, TextOf(upper_camel_case(ix.name)),
                                                   "struct"),
                             unres)
         IN  [output |-> close_define_struct_or_enum(r.output), unresolved |-> r.unresolved]
    ELSE [output |-> out, unresolved |-> unres]

\* The declaration of a type definition: the match on custom_type.ty.
EmitDefinition(custom_type, out, unres) ==
    IF custom_type.ty.kind = "Struct"
    THEN LET r == EmitFields(custom_type.ty.fields, 1,
                             define_struct_or_enum(out, custom_type.name, "struct"), unres)
         IN  [output |-> close_define_struct_or_enum(r.output), unresolved |-> r.unresolved]
    ELSE [output |-> close_define_struct_or_enum(
                         EmitVariants(custom_type.ty.variants, 1,
                                      define_struct_or_enum(out, custom_type.name, "enum"))),
          unresolved |-> unres]

\* ScanDefinition without unresolved.remove.
ScanDefinitionKeepsName(custom_type, out, unres) ==
    IF custom_type.name \in unres
    THEN LET r == EmitDefinition(custom_type, out, unres)
         IN  [output |-> r.output, unresolved |-> r.unresolved, emitted |-> TRUE]
    ELSE [output |-> out, unresolved |-> unres, emitted |-> FALSE]

\* ScanDefinition without the unresolved.contains test.
ScanDefinitionUnconditional(custom_type, out, unres) ==
    LET r == EmitDefinition(custom_type, out, unres)
    IN  [output |-> r.output, unresolved |-> r.unresolved \ {custom_type.name},
         emitted |-> TRUE]

\* ScanDefinition with the unresolved.contains test negated.
ScanDefinitionNegated(custom_type, out, unres) ==
    IF custom_type.name \notin unres
    THEN LET r == EmitDefinition(custom_type, out, unres)
         IN  [output |-> r.output, unresolved |-> r.unresolved \ {custom_type.name},
              emitted |-> TRUE]
    ELSE [output |-> out, unresolved |-> unres, emitted |-> FALSE]

\* One iteration of a definition scan: a definition whose name is unresolved
\* is emitted and its name removed; any other is skipped.
ScanDefinition(custom_type, out, unres) ==
    IF custom_type.name \in unres
    THEN LET r == EmitDefinition(custom_type, out, unres)
         IN  [output |-> r.output, unresolved |-> r.unresolved \ {custom_type.name},
              emitted |-> TRUE]
    ELSE [output |-> out, unresolved |-> unres, emitted |-> FALSE]

\* An iterator that stops one element early.
OrdersButLast(S) ==
    {o \in [1..(IF S = {} THEN 0 ELSE Cardinality(S) - 1) -> S] :
        \A i, j \in DOMAIN o : i # j => o[i] # o[j]}

\* The orders in which a HashSet's iterator may yield its elements.
Orders(S) == {o \in [1..Cardinality(S) -> S] : \A i, j \in DOMAIN o : i # j => o[i] # o[j]}

\* warn!("resolved type: {}", name)
WarnLine(name) == [fmt |-> "resolved type: {}", arg |-> name]

(***************************************************************************)
(* The run.  A document is immutable and main reads each of its parts      *)
(* once, in order: idl holds the parts read so far, and the part a step    *)
(* reads is any value the deserialized document can hold there.            *)
(***************************************************************************)
Init ==
    /\ filesLeft \in 0..MaxFiles
    /\ pc = "Start"
    /\ idl = UnreadIdl
    /\ output = NoFile
    /\ unresolved = {}
    /\ pos = 1
    /\ emitted = <<>>
    /\ warned = <<>>
    /\ result = "Running"

\* The next file of find_idl_json's list is opened and parsed, its output
\* file is created and the imports are written.
OpenFile ==
    /\ pc \in {"Start", "Done"}
    /\ filesLeft > 0
    /\ filesLeft' = filesLeft - 1
    /\ idl' = UnreadIdl
    /\ output' = add_imports(FileCreate)
    /\ unresolved' = {}
    /\ emitted' = <<>>
    /\ warned' = <<>>
    /\ pos' = 1
    /\ pc' = "Metadata"
    /\ UNCHANGED result

\* The metadata checks, then the program id and the head of the
\* discriminator table.
CheckMetadata ==
    /\ pc = "Metadata"
    /\ \E metadata \in Metadatas :
         /\ idl' = [idl EXCEPT !.metadata = metadata]
         /\ IF ~metadata.some \/ metadata.address # "string"
            THEN /\ pc' = "Aborted"
                 /\ result' = "Err"
                 /\ UNCHANGED output
            ELSE /\ pc' = "Discriminator"
                 /\ output' = define_discriminator(add_program_id(output, metadata.id))
                 /\ UNCHANGED result
    /\ UNCHANGED <<filesLeft, unresolved, pos, emitted, warned>>

\* One iteration of the discriminator loop, the document holding at most
\* max instructions, each one of ixs.
AddDiscriminatorOf(ixs, max) ==
    /\ pc = "Discriminator"
    /\ Len(idl.instructions) < max
    /\ \E ix \in ixs :
         /\ idl' = [idl EXCEPT !.instructions = Append(@, ix)]
         /\ output' = add_discriminator(output, build_sighash(ix.name),
                                        snake_case(ix.name))
    /\ UNCHANGED <<filesLeft, pc, unresolved, pos, emitted, warned, result>>

AddDiscriminator == AddDiscriminatorOf(IdlInstructions, MaxInstr)

\* The instructions are exhausted: the table is closed.
CloseDiscriminator ==
    /\ pc = "Discriminator"
    /\ output' = close_define_discriminator(output)
    /\ pc' = "ScanningInstructions"
    /\ pos' = 1
    /\ UNCHANGED <<filesLeft, idl, unresolved, emitted, warned, result>>

ScanInstruction ==
    /\ pc = "ScanningInstructions"
    /\ pos <= Len(idl.instructions)
    /\ LET r == EmitArgs(idl.instructions[pos], output, unresolved)
       IN  /\ output' = r.output
           /\ unresolved' = r.unresolved
    /\ pos' = pos + 1
    /\ UNCHANGED <<filesLeft, pc, idl, emitted, warned, result>>

InstructionsDone ==
    /\ pc = "ScanningInstructions"
    /\ pos > Len(idl.instructions)
    /\ pc' = "ScanningAccountDefs"
    /\ pos' = 1
    /\ UNCHANGED <<filesLeft, idl, output, unresolved, emitted, warned, result>>

\* What one iteration of a definition scan does to the output, the
\* unresolved set and the record of the emitted definitions: for each, the
\* scan, the position, the name and the names its emission added to the set.
ScanStep(scan, custom_type) ==
    LET r == ScanDefinition(custom_type, output, unresolved)
    IN  /\ output' = r.output
        /\ unresolved' = r.unresolved
        /\ emitted' = IF r.emitted
                      THEN Append(emitted, [scan |-> scan, pos |-> pos,
                                            name |-> custom_type.name,
                                            added |-> r.unresolved \ unresolved])
                      ELSE emitted
        /\ pos' = pos + 1

ScanAccount ==
    /\ pc = "ScanningAccountDefs"
    /\ Len(idl.accounts) < MaxAccounts
    /\ \E custom_type \in IdlTypeDefinitions :
         /\ idl' = [idl EXCEPT !.accounts = Append(@, custom_type)]
         /\ ScanStep("ScanningAccountDefs", custom_type)
    /\ UNCHANGED <<filesLeft, pc, warned, result>>

AccountsDone ==
    /\ pc = "ScanningAccountDefs"
    /\ pc' = "ScanningAuxiliaryDefs"
    /\ pos' = 1
    /\ UNCHANGED <<filesLeft, idl, output, unresolved, emitted, warned, result>>

ScanType ==
    /\ pc = "ScanningAuxiliaryDefs"
    /\ Len(idl.types) < MaxTypes
    /\ \E custom_type \in IdlTypeDefinitions :
         /\ idl' = [idl EXCEPT !.types = Append(@, custom_type)]
         /\ ScanStep("ScanningAuxiliaryDefs", custom_type)
    /\ UNCHANGED <<filesLeft, pc, warned, result>>

\* The auxiliary definitions are exhausted: one warning for each name the
\* set holds.
Report ==
    /\ pc = "ScanningAuxiliaryDefs"
    /\ \E order \in Orders(unresolved) :
         warned' = [i \in DOMAIN order |-> WarnLine(order[i])]
    /\ pc' = "Done"
    /\ UNCHANGED <<filesLeft, idl, output, unresolved, pos, emitted, result>>

\* No file is left: main returns Ok(()).
Return ==
    /\ pc \in {"Start", "Done"}
    /\ filesLeft = 0
    /\ pc' = "Exit"
    /\ result' = "Ok"
    /\ UNCHANGED <<filesLeft, idl, output, unresolved, pos, emitted, warned>>

Next ==
    \/ OpenFile
    \/ CheckMetadata
    \/ AddDiscriminator
    \/ CloseDiscriminator
    \/ ScanInstruction
    \/ InstructionsDone
    \/ ScanAccount
    \/ AccountsDone
    \/ ScanType
    \/ Report
    \/ Return

Spec == Init /\ [][Next]_vars

\* main runs to its end: it never stops while a step is left.
FairSpec == Spec /\ WF_vars(Next)

\* The run over documents that hold instructions without arguments and no
\* type definitions.
AddNamedDiscriminator == AddDiscriminatorOf(NamedInstructions, MaxDiscInstr)

NextDisc ==
    \/ OpenFile
    \/ CheckMetadata
    \/ AddNamedDiscriminator
    \/ CloseDiscriminator
    \/ ScanInstruction
    \/ InstructionsDone
    \/ AccountsDone
    \/ Report
    \/ Return

SpecDisc == Init /\ [][NextDisc]_vars

(***************************************************************************)
(* What the properties speak of.                                           *)
(***************************************************************************)
Acc == "ScanningAccountDefs"

Aux == "ScanningAuxiliaryDefs"

\* The type names a type expression refers to, at any depth.
RECURSIVE TypeRefs(_)
TypeRefs(ty) ==
    IF ty[1] = "Defined" THEN {ty[2]}
    ELSE IF ty[1] \in {"Option", "Vec", "Array"} THEN TypeRefs(ty[2])
    ELSE {}

FieldRefs(fields) == UNION {TypeRefs(fields[i].ty) : i \in DOMAIN fields}

\* The names the instruction arguments refer to.
ArgRefs == UNION {FieldRefs(idl.instructions[i].args) : i \in DOMAIN idl.instructions}

\* The names the fields of a definition refer to.
DefRefs(d) == FieldRefs(d.ty.fields)

Collection(scan) == IF scan = Acc THEN idl.accounts ELSE idl.types

\* The definition an entry of emitted stands for.
DefOf(e) == Collection(e.scan)[e.pos]

EmittedNames == {emitted[i].name : i \in DOMAIN emitted}

EmittedAt(scan, p) ==
    \E i \in DOMAIN emitted : emitted[i].scan = scan /\ emitted[i].pos = p

WarnedLines == {warned[i] : i \in DOMAIN warned}

ValidMetadata == idl.metadata.some /\ idl.metadata.address = "string"

\* C1: when the metadata is absent, or holds no address, or an address that
\* is no string, the run aborts before the output file of the document is
\* created: at the abort the file does not exist and nothing was written.
C1_AbortBeforeOutput ==
    pc = "Aborted" => (~output.created /\ output.data = <<>>)

\* C2: when every name an instruction argument refers to, at any depth, is
\* defined in the account collection, and no account definition of such a
\* name has a field that refers to a name, the unresolved set is empty at
\* Done.
C2_Case ==
    /\ \A n \in ArgRefs : \E i \in DOMAIN idl.accounts : idl.accounts[i].name = n
    /\ \A i \in DOMAIN idl.accounts :
         idl.accounts[i].name \in ArgRefs => DefRefs(idl.accounts[i]) = {}

C2_ResolutionComplete == (pc = "Done" /\ C2_Case) => unresolved = {}

\* An argument refers to a name under wrappers, the account definition of
\* the name was emitted, and auxiliary definitions were scanned too.
C2_Witness ==
    /\ pc = "Done"
    /\ C2_Case
    /\ \E i \in DOMAIN idl.instructions : \E a \in DOMAIN idl.instructions[i].args :
         LET ty == idl.instructions[i].args[a].ty
         IN  ty[1] = "Array" /\ TypeRefs(ty) # {}
    /\ EmittedAt(Acc, 1)
    /\ Len(idl.types) = MaxTypes
    /\ unresolved = {}

\* C3: the case of the single-pass gap.  The auxiliary definition at
\* position j was emitted in the auxiliary scan, the name b is referred to
\* by its fields and by nothing else in the document, and b is defined
\* before position j in the auxiliary collection or in the account
\* collection.
GapCase(b, j) ==
    /\ EmittedAt(Aux, j)
    /\ b \in DefRefs(idl.types[j])
    /\ b \notin ArgRefs
    /\ \A i \in DOMAIN idl.accounts : b \notin DefRefs(idl.accounts[i])
    /\ \A k \in DOMAIN idl.types : k # j => b \notin DefRefs(idl.types[k])
    /\ \/ \E i \in 1..(j - 1) : idl.types[i].name = b
       \/ \E i \in DOMAIN idl.accounts : idl.accounts[i].name = b

\* The definitions of b that precede position j of the auxiliary collection
\* were not emitted.
EarlierNotEmitted(b, j) ==
    /\ \A i \in 1..(j - 1) : idl.types[i].name = b => ~EmittedAt(Aux, i)
    /\ \A i \in DOMAIN idl.accounts : idl.accounts[i].name = b => ~EmittedAt(Acc, i)

DefinedAfter(b, j) == \E k \in DOMAIN idl.types : k > j /\ idl.types[k].name = b

\* C3 as stated: in the case of the gap, B is never emitted, is in the
\* unresolved set at Done and is reported.
C3_GapAsStated ==
    pc = "Done" =>
        \A b \in TypeNames : \A j \in DOMAIN idl.types :
            GapCase(b, j) =>
                /\ EarlierNotEmitted(b, j)
                /\ b \in unresolved
                /\ WarnLine(b) \in WarnedLines

\* C3, amended: in the case of the gap, and when no definition named B
\* follows A in the auxiliary collection, no definition named B is ever
\* emitted, B is in the unresolved set at Done and is reported.
C3_Gap ==
    pc = "Done" =>
        \A b \in TypeNames : \A j \in DOMAIN idl.types :
            (GapCase(b, j) /\ ~DefinedAfter(b, j)) =>
                /\ EarlierNotEmitted(b, j)
                /\ b \notin EmittedNames
                /\ b \in unresolved
                /\ WarnLine(b) \in WarnedLines

\* The gap within the auxiliary collection: B at position 1, A at position
\* 2 emitted and referring to B.
C3_Witness ==
    /\ pc = "Done"
    /\ \E b \in TypeNames :
         /\ GapCase(b, 2)
         /\ ~DefinedAfter(b, 2)
         /\ idl.types[1].name = b
         /\ b \in unresolved

\* C4: a name that has been emitted, and removed, is never in the
\* unresolved set afterwards, and so is never reported at Done; the set
\* holds only names referred to and not yet emitted.
C4_EmittedNeverUnresolved ==
    \A i \in DOMAIN emitted : emitted[i].name \notin unresolved

\* The name n is referred to by a structure emitted so far.
ReferencedByEmitted(n) ==
    \/ n \in ArgRefs
    \/ \E i \in DOMAIN emitted : n \in DefRefs(DefOf(emitted[i]))

\* C5: in both scans a definition is emitted only if, when it is scanned,
\* its name is in the unresolved set, so that a structure emitted earlier
\* refers to it; a definition whose name is not in the set is skipped with
\* no output and no change of the set.
C5_ReachableOnly ==
    [][\A scan \in {Acc, Aux} :
          (pc = scan /\ pc' = scan) =>
              LET defs == IF scan = Acc THEN idl'.accounts ELSE idl'.types
                  d == defs[Len(defs)]
              IN  /\ output' # output =>
                        (d.name \in unresolved /\ ReferencedByEmitted(d.name))
                  /\ d.name \notin unresolved =>
                        (output' = output /\ unresolved' = unresolved)]_vars

\* Both scans have emitted a definition and a definition was skipped.
C5_Witness ==
    /\ pc = "Done"
    /\ \E i \in DOMAIN emitted : emitted[i].scan = Acc
    /\ \E i \in DOMAIN emitted : emitted[i].scan = Aux
    /\ \E p \in DOMAIN idl.types : ~EmittedAt(Aux, p)

\* The writes of add_discriminator, in order.
Inserts == SelectSeq(output.data, LAMBDA w : w.call = "add_discriminator")

TableClosed ==
    \E i \in DOMAIN output.data : output.data[i].call = "close_define_discriminator"

\* The letters of a name, lowercased, without its separators.
RECURSIVE LowerLetters(_)
LowerLetters(s) ==
    IF s = <<>> THEN <<>>
    ELSE IF IsAlphanumeric(Head(s)) THEN <<ToLower(Head(s))>> \o LowerLetters(Tail(s))
    ELSE LowerLetters(Tail(s))

\* Lowercase words separated by single underscores.
IsSnakeForm(s) ==
    /\ \A i \in DOMAIN s : IsLower(s[i]) \/ s[i] = "_"
    /\ s # <<>> => (s[1] # "_" /\ s[Len(s)] # "_")
    /\ \A i \in 1..(Len(s) - 1) : ~(s[i] = "_" /\ s[i + 1] = "_")

\* C6 as stated: instructions with pairwise different names have pairwise
\* distinct discriminators, and the table holds one entry per instruction
\* whose value is the name of the instruction.
C6_TableAsStated ==
    TableClosed =>
        /\ Len(Inserts) = Len(idl.instructions)
        /\ \A i, j \in DOMAIN Inserts :
             idl.instructions[i].name # idl.instructions[j].name =>
                 Inserts[i].args[1] # Inserts[j].args[1]
        /\ \A i \in DOMAIN Inserts : Inserts[i].args[2] = idl.instructions[i].name

\* C6, amended: the constructor holds one insert per instruction, in the
\* order of the document; its value is the snake-case form of the name (the
\* name itself when it is in that form) and its key is the digest of
\* "global:" followed by that value, so that instructions with the same
\* snake-case form have the same discriminator.
C6_Table ==
    TableClosed =>
        /\ Len(Inserts) = Len(idl.instructions)
        /\ \A i \in DOMAIN Inserts :
             LET key == Inserts[i].args[1]
                 value == Inserts[i].args[2]
                 name == idl.instructions[i].name
             IN  /\ IsSnakeForm(value)
                 /\ LowerLetters(value) = LowerLetters(name)
                 /\ IsSnakeForm(name) => value = name
                 /\ key = Sha256First8(GlobalTag \o value)
        /\ \A i, j \in DOMAIN Inserts :
             Inserts[i].args[2] = Inserts[j].args[2] =>
                 Inserts[i].args[1] = Inserts[j].args[1]

\* Two instructions with different names and one discriminator.
C6_Witness ==
    /\ TableClosed
    /\ Len(Inserts) = 2
    /\ idl.instructions[1].name # idl.instructions[2].name
    /\ Inserts[1].args[1] = Inserts[2].args[1]
    /\ Inserts[1].args[2] # idl.instructions[1].name

\* What holds of the warnings and of the result in every state.
C7_Outcome ==
    /\ pc = "Done" =>
          /\ Len(warned) = Cardinality(unresolved)
          /\ WarnedLines = {WarnLine(n) : n \in unresolved}
          /\ output.created
          /\ TableClosed
          /\ result = "Running"
    /\ pc = "Exit" => result = "Ok"
    /\ result = "Err" => (pc = "Aborted" /\ ~ValidMetadata)

\* C7: a document with valid metadata reaches Done; at Done there is one
\* warning for each name of the unresolved set and no other; the names left
\* never make the run fail: the output is written and main returns Ok.
C7_DoneAndWarned ==
    /\ []C7_Outcome
    /\ (pc = "Discriminator") ~> (pc = "Done")

\* main has returned Ok after a document that left two names unresolved.
C7_Witness ==
    /\ pc = "Exit"
    /\ result = "Ok"
    /\ Cardinality(unresolved) = 2
    /\ Len(warned) = 2
    /\ output.created

HasDataVariant(d) ==
    d.ty.kind = "Enum" /\ \E i \in DOMAIN d.ty.variants : d.ty.variants[i].fields # <<>>

\* The run has issued a diagnostic other than the warning of an unresolved
\* name, or has failed.
Flagged ==
    \/ \E i \in DOMAIN warned : warned[i].fmt # "resolved type: {}"
    \/ result = "Err"

\* C8: an emitted enum that has a variant with data is flagged by the run,
\* never emitted as plain unit variants without a diagnostic.
C8_DataVariantFlagged ==
    pc = "Done" =>
        \A i \in DOMAIN emitted : HasDataVariant(DefOf(emitted[i])) => Flagged

\* The names first added to the unresolved set by the i-th emission.
FirstAdded(i) ==
    emitted[i].added \ (ArgRefs \cup UNION {emitted[k].added : k \in 1..(i - 1)})

EmittedLater(i, n) ==
    \E j \in DOMAIN emitted :
        j > i /\ emitted[j].scan = emitted[i].scan /\ emitted[j].name = n

\* C9 as stated: a name first added to the unresolved set by an emission of
\* a scan is never emitted later in the same scan, whatever its position.
C9_NeverLaterAsStated ==
    \A i \in DOMAIN emitted : \A n \in FirstAdded(i) : ~EmittedLater(i, n)

\* C9, amended: a name first added to the unresolved set by an emission of
\* a scan is emitted later in the same scan exactly when the collection
\* defines it after the position of the emitted definition: the scan never
\* goes back, and goes on through the definitions that follow.
C9_SinglePass ==
    pc = "Done" =>
        \A i \in DOMAIN emitted : \A n \in FirstAdded(i) :
            EmittedLater(i, n) <=>
                \E q \in DOMAIN Collection(emitted[i].scan) :
                    q > emitted[i].pos /\ Collection(emitted[i].scan)[q].name = n

\* The auxiliary scan discovered a name that only an earlier position of
\* the collection defines, and the name was left unresolved.
C9_Witness ==
    /\ pc = "Done"
    /\ \E i \in DOMAIN emitted : \E n \in FirstAdded(i) :
         /\ emitted[i].scan = Aux
         /\ emitted[i].pos = 2
         /\ idl.types[1].name = n
         /\ ~EmittedLater(i, n)
         /\ n \in unresolved

\* C10: the two scans together emit a declaration of a type name at most
\* once, also when both collections define the name and when an emitted
\* name is referred to again by a definition emitted later.
C10_EmittedAtMostOnce ==
    \A i, j \in DOMAIN emitted : i # j => emitted[i].name # emitted[j].name

====
